---- MODULE Spec2Model ----
(***************************************************************************)
(* point-cli (cli.js): a command-line client of the Minut Point API.       *)
(*                                                                         *)
(* The Config Store (configstore) is one file shared by every invocation   *)
(* of the CLI.  An invocation is one node process: it loads the module     *)
(* (which opens the store and builds the axios client `req` from the       *)
(* token then cached), runs the handler of one sub-command and later the   *)
(* promise callbacks of the responses.  The store has no lock: every       *)
(* conf.get reads the whole file, conf.set reads the whole file and then   *)
(* writes the whole file, and so does opening the store.  One action of    *)
(* the model is the code of one invocation around at most one file         *)
(* operation; invocations interleave between any two file operations.      *)
(***************************************************************************)
EXTENDS Integers, Sequences, FiniteSets, TLC

(* ------------------------------ bounds -------------------------------- *)
\* Number of invocations that may be alive at the same time.
NProcs == 2
\* Number of invocations started in one behaviour of Spec, where they overlap.
MaxStarts == 2
\* Number of invocations started in one behaviour of SpecOne, one after the other.
MaxRuns == 3
\* Longest cached device list drawn by InitOne.
MaxDevices == 2
\* Longest sample sequence of a sensor response drawn by NextOne.
MaxSamples == 2

(* --------------------------- program constants ------------------------ *)
\* cli.js:368  limit: (opts.limit) ? opts.limit : 10
DefaultLimit == 10
\* cli.js:211  _.round(newest.value, 2)
TempPrecision == 2
\* cli.js:84   process.exit(1)
ExitFailure == 1

(* ------------------------------ values -------------------------------- *)
Procs == 1..NProcs

\* What `${undefined}` prints, and the value of a missing key.
Undefined == "undefined"
\* No Authorization header at all (axios.get('/auth/token', config)).
NoHeader == "none"
NoId == "-"

Tokens == {"t1", "t2"}
\* The token the server answers with in Spec.
MainTokens == {"t2"}
Messages == {"Unauthorized", "Too many requests"}

SeqsUpTo(S, n) == UNION {[1..k -> S] : k \in 0..n}
Range(s) == {s[i] : i \in DOMAIN s}

Date(y, mo, d, h, mi, s) == [y |-> y, mo |-> mo, d |-> d, h |-> h, mi |-> mi, s |-> s]
T1 == Date(2017, 12, 20, 10, 15, 30)
T2 == Date(2017, 12, 20, 10, 16, 5)
T3 == Date(2017, 12, 21, 9, 0, 59)

\* An entry of the remote GET /devices answer.
RemoteDevice(id, desc, off) ==
    [device_id |-> id, description |-> desc, offline |-> off, active |-> ~off,
     last_heard_from_at |-> T1]
RemoteDevices ==
    { RemoteDevice("d1", "Kitchen", FALSE),
      RemoteDevice("d2", "kitchen", TRUE),
      RemoteDevice("d3", "Kitchen", FALSE) }
\* The upstream device lists the server answers with in SpecOne.
UpstreamLists ==
    { << >>,
      << RemoteDevice("d1", "Kitchen", FALSE), RemoteDevice("d2", "kitchen", TRUE) >>,
      << RemoteDevice("d2", "kitchen", TRUE), RemoteDevice("d3", "Kitchen", FALSE) >> }
\* ... and in Spec: two lists that differ and share a device.
MainLists ==
    { << RemoteDevice("d1", "Kitchen", FALSE), RemoteDevice("d2", "kitchen", TRUE) >>,
      << RemoteDevice("d2", "kitchen", TRUE), RemoteDevice("d3", "Kitchen", FALSE) >> }

\* The optional [device] argument: << >> when omitted, <<name>> when given.
NoArg == << >>
DeviceArgs == { NoArg, <<"Kitchen">>, <<"kitchen">>, <<"Nonexistent">> }

\* A sample of a sensor answer; value in thousandths of the unit.
Sample(v, t) == [value |-> v, datetime |-> t]
Samples == { Sample(19234, T1), Sample(19805, T3), Sample(-15, T2) }
SampleLists == SeqsUpTo(Samples, MaxSamples)
MainSampleLists == { << Sample(19805, T3), Sample(19234, T1) >> }

\* A timeline event; its type is a string, held as its characters.
Event(ty, t, tp) == [type |-> ty, created_at |-> t, text_params |-> tp]
DoorOpenedRemotely ==
    << "d", "o", "o", "r", ":", "o", "p", "e", "n", "e", "d", ":",
       "r", "e", "m", "o", "t", "e", "l", "y" >>
AlarmHeatKitchen ==
    << "a", "l", "a", "r", "m", "_", "h", "e", "a", "t", ":",
       "k", "i", "t", "c", "h", "e", "n" >>
Co2High1stFloor ==
    << "c", "o", "2", "H", "i", "g", "h", ":", "1", "s", "t", "F", "L", "O", "O", "R" >>
MainEventLists == { << Event(AlarmHeatKitchen, T1, << >>) >> }
EventLists ==
    { << >>,
      << Event(DoorOpenedRemotely, T3, <<"Kitchen", "x">>),
         Event(AlarmHeatKitchen, T1, << >>) >>,
      << Event(Co2High1stFloor, T2, <<"Hall">>) >> }

SensorCmds == {"temp", "humidity", "sound", "light", "lightir", "pressure"}
AuthedCmds == SensorCmds \cup {"fetch", "devices", "timeline"}
\* A command line: the sub-command and its [device] argument.
Invocation(c, a) == [cmd |-> c, arg |-> a]
Invocations ==
    {Invocation(c, NoArg) : c \in {"auth", "logout", "fetch", "devices", "timeline"}}
    \cup {Invocation(c, a) : c \in SensorCmds, a \in DeviceArgs}
MainInvocations ==
    {Invocation(c, NoArg) : c \in {"auth", "logout", "fetch", "devices", "timeline", "temp"}}

VARIABLES
    conf,       \* the file of the Config Store: a map from a subset of
                \* {"token", "devices"}
    runs,       \* the number of invocations started so far
    proc,       \* proc[p]: the live invocation in slot p: its position, command
                \* line, the copy of the store it read last, `req` header,
                \* pending request, last response, the device it resolved, its
                \* console and its effects in order
    ended,      \* the invocation that ended last, until the next one starts
    refreshes   \* only: every invocation started so far is `point fetch`;
                \* last: while so, the answer of the Device Refresh whose
                \* write to the store came last, << >> when there is none

vars == <<conf, runs, proc, ended, refreshes>>

(* ------------------------- library behaviour -------------------------- *)
Set(f, p, v) == [f EXCEPT ![p] = v]

\* configstore.  `all` (get) reads and parses the file; `all = v` (set)
\* writes the file.  get(key) is all[key]; set(key, val) is
\*   config = this.all; config[key] = val; this.all = config
\* that is, a read of the file and later a write of the copy with the key
\* changed; clear() is `all = {}`.  ConfSet is the value set() writes from
\* the copy cf it read.
ConfGet(cf, key) == IF key \in DOMAIN cf THEN cf[key] ELSE Undefined
ConfSet(cf, key, val) == [k \in DOMAIN cf \cup {key} |-> IF k = key THEN val ELSE cf[k]]
ConfClear == [k \in {} |-> Undefined]
\* conf.get('devices') as a JavaScript value: << >> is undefined, <<l>> the list l.
ConfDevices(cf) == IF "devices" \in DOMAIN cf THEN <<cf["devices"]>> ELSE << >>

\* `Bearer ${conf.get('token')}`: the token, or the text "undefined".
Bearer(cf) == ConfGet(cf, "token")

\* _.find(collection, ['name', value]): the first element, in order, whose
\* name is strictly equal (===) to value; undefined when there is none, when
\* the collection is undefined, or when value is undefined (the stored
\* records all carry a string name).
RECURSIVE FindFrom(_, _, _)
FindFrom(list, i, value) ==
    IF i > Len(list) THEN << >>
    ELSE IF list[i].name = value THEN <<list[i]>>
    ELSE FindFrom(list, i + 1, value)
LodashFind(coll, value) ==
    IF coll = << >> \/ value = << >> THEN << >> ELSE FindFrom(coll[1], 1, value[1])
\* _.first(array): array[0], undefined for an empty or undefined array.
LodashFirst(coll) ==
    IF coll = << >> THEN << >>
    ELSE IF Len(coll[1]) = 0 THEN << >> ELSE <<coll[1][1]>>
\* Faulty variant of LodashLast: _.head, the first sample instead of the last.
LodashHead(list) == IF Len(list) = 0 THEN << >> ELSE <<list[1]>>
\* _.last(array): array[length - 1], undefined for an empty array.
LodashLast(list) == IF Len(list) = 0 THEN << >> ELSE <<list[Len(list)]>>
\* array.slice(0, 1): the first element alone, or nothing.
SliceFirst(s) == IF Len(s) = 0 THEN << >> ELSE <<s[1]>>
\* _.round(x, precision) on a value held in thousandths:
\* Math.round(x * 10^precision) / 10^precision, Math.round being floor(y + 0.5).
Pow10(n) == IF n = 0 THEN 1 ELSE IF n = 1 THEN 10 ELSE IF n = 2 THEN 100 ELSE 1000
LodashRound(x, precision) ==
    LET unit == Pow10(3 - precision)
    IN  ((2 * x + unit) \div (2 * unit)) * unit
\* _.map(res.data.devices, n => ({id: n.device_id, name: n.description}));
\* device_id and description are strings, which the store keeps as they are.
MapDevices(list) ==
    [i \in DOMAIN list |-> [id |-> list[i].device_id, name |-> list[i].description]]

\* Characters (ASCII; whatever is no letter and no digit separates words).
Lowers ==
    << "a", "b", "c", "d", "e", "f", "g", "h", "i", "j", "k", "l", "m",
       "n", "o", "p", "q", "r", "s", "t", "u", "v", "w", "x", "y", "z" >>
Uppers ==
    << "A", "B", "C", "D", "E", "F", "G", "H", "I", "J", "K", "L", "M",
       "N", "O", "P", "Q", "R", "S", "T", "U", "V", "W", "X", "Y", "Z" >>
Digits == {"0", "1", "2", "3", "4", "5", "6", "7", "8", "9"}
IsLower(c) == \E i \in DOMAIN Lowers : Lowers[i] = c
IsUpper(c) == \E i \in DOMAIN Uppers : Uppers[i] = c
IsDigit(c) == c \in Digits
IsBreak(c) == ~IsLower(c) /\ ~IsUpper(c) /\ ~IsDigit(c)
ToUpper(c) == IF IsLower(c) THEN Uppers[CHOOSE i \in DOMAIN Lowers : Lowers[i] = c] ELSE c
LowerSet == {Lowers[i] : i \in DOMAIN Lowers}
UpperSet == {Uppers[i] : i \in DOMAIN Uppers}
\* The last index of the longest run of characters of the class that starts at i.
RunEnd(s, i, class) ==
    CHOOSE j \in (i - 1)..Len(s) :
        /\ \A k \in i..j : s[k] \in class
        /\ j = Len(s) \/ s[j + 1] \notin class
\* string.replace(/x/g, y)
Replace(s, from, to) == [i \in DOMAIN s |-> IF s[i] = from THEN to ELSE s[i]]

\* _.words: the word that starts at the letter or digit s[i] ends at
\* WordEnd(s, i).  In the order of lodash's pattern: an optional capital and
\* a run of small letters; a run of capitals, without its last one when a
\* small letter follows it; a run of digits, with the two letters of an
\* English ordinal (1st 2nd 3rd 4th, 1ST ..) when they follow and no letter
\* of the same case or digit comes after them.
Ordinal(s, j) ==
    /\ j + 2 <= Len(s)
    /\ LET d == s[j]
           suffix == <<s[j + 1], s[j + 2]>>
           small == \/ d = "1" /\ suffix = <<"s", "t">>
                    \/ d = "2" /\ suffix = <<"n", "d">>
                    \/ d = "3" /\ suffix = <<"r", "d">>
                    \/ d \notin {"1", "2", "3"} /\ suffix = <<"t", "h">>
           capital == \/ d = "1" /\ suffix = <<"S", "T">>
                      \/ d = "2" /\ suffix = <<"N", "D">>
                      \/ d = "3" /\ suffix = <<"R", "D">>
                      \/ d \notin {"1", "2", "3"} /\ suffix = <<"T", "H">>
           last == j + 2 = Len(s)
       IN  \/ small /\ (last \/ ~(IsLower(s[j + 3]) \/ IsDigit(s[j + 3])))
           \/ capital /\ (last \/ ~(IsUpper(s[j + 3]) \/ IsDigit(s[j + 3])))
WordEnd(s, i) ==
    IF IsLower(s[i]) THEN RunEnd(s, i, LowerSet)
    ELSE IF IsUpper(s[i])
    THEN IF i < Len(s) /\ IsLower(s[i + 1]) THEN RunEnd(s, i + 1, LowerSet)
         ELSE LET k == RunEnd(s, i, UpperSet)
              IN  IF k < Len(s) /\ IsLower(s[k + 1]) THEN k - 1 ELSE k
    ELSE LET j == RunEnd(s, i, Digits)
         IN  IF Ordinal(s, j) THEN j + 2 ELSE j
RECURSIVE Words(_, _)
Words(s, i) ==
    IF i > Len(s) THEN << >>
    ELSE IF IsBreak(s[i]) THEN Words(s, i + 1)
    ELSE <<SubSeq(s, i, WordEnd(s, i))>> \o Words(s, WordEnd(s, i) + 1)
\* _.upperFirst
UpperFirst(w) == <<ToUpper(w[1])>> \o Tail(w)
\* _.startCase: apostrophes dropped, then the words, each with its first
\* character in upper case and the rest as it is, joined by one space.
RECURSIVE JoinWords(_)
JoinWords(ws) ==
    IF Len(ws) = 0 THEN << >>
    ELSE IF Len(ws) = 1 THEN UpperFirst(ws[1])
    ELSE UpperFirst(ws[1]) \o <<" ">> \o JoinWords(Tail(ws))
LodashStartCase(s) == JoinWords(Words(SelectSeq(s, LAMBDA c : c # "'"), 1))

(* ------------------------------ cli.js -------------------------------- *)
\* formatDate: dateFormat(date, 'HH:MM dd/mm/yyyy') keeps hour, minute, day,
\* month and year and drops the seconds.
formatDate(date) ==
    [HH |-> date.h, MM |-> date.mi, dd |-> date.d, mm |-> date.mo, yyyy |-> date.y]

\* timelinePrettier: _.chain(s).replace(/:/g, ' ').startCase().value()
timelinePrettier(s) == LodashStartCase(Replace(s, ":", " "))

\* Faulty variant of checkAuth: the guidance is skipped and the command goes on.
checkAuthLenient(cf) == TRUE
\* checkAuth: conf.get('token') is truthy (a cached token is a non-empty
\* string); the caller exits with status 1 when this is FALSE.
checkAuth(cf) == ConfGet(cf, "token") # Undefined

\* Faulty variant of getDevice: names compared without regard to case.
Lower(w) == IF w = "Kitchen" THEN "kitchen" ELSE w
RECURSIVE FindFromIgnoreCase(_, _, _)
FindFromIgnoreCase(list, i, value) ==
    IF i > Len(list) THEN << >>
    ELSE IF Lower(list[i].name) = Lower(value) THEN <<list[i]>>
    ELSE FindFromIgnoreCase(list, i + 1, value)
getDeviceIgnoreCase(cf, deviceName) ==
    LET devices == ConfDevices(cf)
        found == IF devices = << >> \/ deviceName = << >> THEN << >>
                 ELSE FindFromIgnoreCase(devices[1], 1, deviceName[1])
    IN  IF found # << >> THEN found ELSE LodashFirst(devices)
\* getDevice: _.find(devices, ['name', deviceName]) || _.first(devices)
getDevice(cf, deviceName) ==
    LET devices == ConfDevices(cf)
        found == LodashFind(devices, deviceName)
    IN  IF found # << >> THEN found ELSE LodashFirst(devices)

NoReq == [ep |-> "none", id |-> NoId, bearer |-> NoHeader, limit |-> 0]
NoRes == [kind |-> "none"]
NoShow == [kind |-> "none"]
Request(ep, id, bearer, limit) == [ep |-> ep, id |-> id, bearer |-> bearer, limit |-> limit]

\* What axios rejects a request with: the response itself (older axios: the
\* message is at .data.message) or an Error (a network failure, and every
\* HTTP error of newer axios: there is no .data; the response, if any, is
\* at .response).
Rejected(shape, msg) == [kind |-> "rejected", shape |-> shape, message |-> msg]
Rejections == {Rejected(s, m) : s \in {"response", "error"}, m \in Messages}
MainRejections == {Rejected("response", "Unauthorized"), Rejected("error", "Unauthorized")}

SensorPath == [ temp |-> "temperature", humidity |-> "humidity",
                sound |-> "sound_avg_levels", light |-> "part_als",
                lightir |-> "part_als_ir", pressure |-> "pressure" ]
SensorLabel == [ temp |-> "Temp", humidity |-> "Humidity", sound |-> "Avg sound",
                 light |-> "Avg light", lightir |-> "Avg light IR",
                 pressure |-> "Avg pressure" ]
\* Only temp rounds: `${_.round(newest.value, 2)}°C`; the others print newest.value.
RenderValue(c, v) == IF c = "temp" THEN LodashRound(v, TempPrecision) ELSE v
\* if (opts.debug) console.log(util.inspect(res, ...))
DebugLines(debug) == IF debug THEN <<"log: inspect">> ELSE << >>

\* A promise rejected with no handler: node reports it and, depending on its
\* version, either lets the process end normally or kills it.
UnhandledOutcomes == {"done", "crashed"}
\* Exit status of an ended invocation.
ExitStatus(e) == IF e.status \in {"exit1", "crashed"} THEN ExitFailure ELSE 0

Guidance == "log: You don't have an access token yet! Run point auth to get started."

IdleProc ==
    [pc |-> "idle", cmd |-> "none", arg |-> NoArg, snap |-> ConfClear,
     reqToken |-> Undefined, inflight |-> NoReq, res |-> NoRes, point |-> << >>,
     shown |-> NoShow, log |-> << >>]
NoEnded ==
    [cmd |-> "none", arg |-> NoArg, status |-> "none", snap |-> ConfClear,
     reqToken |-> Undefined, res |-> NoRes, point |-> << >>, shown |-> NoShow,
     log |-> << >>]

\* The store of a first run, and the store an authenticate with its refresh
\* leaves.
MainStores ==
    { ConfClear,
      ConfSet(ConfSet(ConfClear, "token", "t1"), "devices",
              MapDevices(<< RemoteDevice("d3", "Kitchen", FALSE) >>)) }
\* No invocation has been started, no Device Refresh answer processed.
NoRefreshes == [only |-> TRUE, last |-> << >>]
\* An invocation other than `point fetch` has been started.
MixedRuns == [only |-> FALSE, last |-> << >>]
Init ==
    /\ conf \in MainStores
    /\ runs = 0
    /\ proc = [p \in Procs |-> IdleProc]
    /\ ended = NoEnded
    /\ refreshes = NoRefreshes

\* The invocation in slot p goes on as r.
Await(p, r) ==
    /\ proc' = Set(proc, p, r)
    /\ ended' = ended
    /\ refreshes' = refreshes
\* The invocation r of slot p ends: its process is gone, its output stays.
End(p, r, status, response) ==
    /\ proc' = Set(proc, p, IdleProc)
    /\ ended' = [cmd |-> r.cmd, arg |-> r.arg, status |-> status, snap |-> r.snap,
                 reqToken |-> r.reqToken, res |-> response, point |-> r.point,
                 shown |-> r.shown, log |-> r.log]
    /\ refreshes' = IF refreshes.only /\ r.pc = "set_devices"
                    THEN [refreshes EXCEPT !.last = <<response.devices>>]
                    ELSE refreshes

(* ------------------------------ start-up ------------------------------ *)
\* Line 21, first half: a new process runs `new Configstore(pkg.name)`, whose
\* constructor reads the file ...
Load(p, inv, max) ==
    /\ proc[p].pc = "idle"
    /\ runs < max
    /\ runs' = runs + 1
    /\ proc' = Set(proc, p, [IdleProc EXCEPT !.pc = "open", !.cmd = inv.cmd,
                                             !.arg = inv.arg, !.snap = conf])
    /\ ended' = NoEnded
    /\ refreshes' = IF inv.cmd = "fetch" THEN refreshes ELSE MixedRuns
    /\ UNCHANGED conf

\* ... and, second half, writes what it read back to the file.
Open(p) ==
    /\ proc[p].pc = "open"
    /\ conf' = proc[p].snap
    /\ Await(p, [proc[p] EXCEPT !.pc = "create"])
    /\ UNCHANGED runs

\* Lines 23-26: axios.create with the header `Bearer ${conf.get('token')}`;
\* then (line 393) cmd.parse calls the handler of the sub-command.
CreateReq(p) ==
    /\ proc[p].pc = "create"
    /\ Await(p, [proc[p] EXCEPT !.pc = "parse", !.reqToken = Bearer(conf)])
    /\ UNCHANGED <<conf, runs>>

\* The handler of command c is about to run in slot p.
Parsed(p, c) == proc[p].pc = "parse" /\ proc[p].cmd = c

\* checkAuth's else branch: the guidance line, then process.exit(1).
ExitUnauthenticated(p) ==
    /\ End(p, [proc[p] EXCEPT !.log = <<Guidance, "exit 1">>], "exit1", NoRes)
    /\ UNCHANGED <<conf, runs>>

\* A promise chain whose rejection nobody handles: the rejection r of the
\* request, or what a callback threw.
Unhandled(p, lines, r, out) ==
    /\ out \in UnhandledOutcomes
    /\ End(p, [proc[p] EXCEPT !.log = @ \o lines \o <<"unhandled rejection">>], out, r)
    /\ UNCHANGED <<conf, runs>>

\* .catch(function (res) { console.log(res.data.message) }), lines 50-52 and
\* 73-75: the message of a rejection that has .data; of one that has not,
\* reading .message of undefined throws inside the handler, and that
\* rejection is handled by nobody.
CatchMessage(p, r, out) ==
    IF r.shape = "response"
    THEN /\ out = "done"
         /\ End(p, [proc[p] EXCEPT !.shown = [kind |-> "message", text |-> r.message],
                                   !.log = @ \o <<"log: message">>],
                "done", r)
         /\ UNCHANGED <<conf, runs>>
    ELSE Unhandled(p, <<"throw TypeError: res.data is undefined">>, r, out)

(* ------------------------------ commands ------------------------------ *)
\* `point auth` (124-134): the handler only starts the prompts.
RunAuth(p) ==
    /\ Parsed(p, "auth")
    /\ Await(p, [proc[p] EXCEPT !.pc = "prompt", !.log = <<"prompt">>])
    /\ UNCHANGED <<conf, runs>>

\* auth(client_id, username, password), lines 33-44: the token request goes
\* out through axios itself, with no Authorization header.
AuthCall(p) ==
    /\ proc[p].pc = "prompt"
    /\ Await(p, [proc[p] EXCEPT !.pc = "auth_wait",
                                !.inflight = Request("/auth/token", NoId, NoHeader, 0),
                                !.log = @ \o <<"GET /auth/token">>])
    /\ UNCHANGED <<conf, runs>>

\* Line 46, first half: the token response resolves and conf.set('token', ..)
\* reads the file.
AuthResolve(p, tok) ==
    /\ proc[p].pc = "auth_wait"
    /\ Await(p, [proc[p] EXCEPT !.pc = "set_token",
                                !.res = [kind |-> "token", access_token |-> tok],
                                !.snap = conf])
    /\ UNCHANGED <<conf, runs>>

\* The request of Device Refresh: axios.get('/devices', config) with the
\* header built from conf.get('token') when fetchDevices is called.
\* Faulty variant: the request goes through `req`, whose header was built
\* when the process started.
fetchDevicesRequestViaReq(p, cf) == Request("/devices", NoId, proc[p].reqToken, 0)
fetchDevicesRequest(p, cf) == Request("/devices", NoId, Bearer(cf), 0)
FetchLines == <<"log: Fetching Points...", "GET /devices">>

\* Faulty variant of AuthSetToken: fetchDevices() is called before the token
\* is written.
AuthSetTokenAfterRefresh(p) ==
    /\ proc[p].pc = "set_token"
    /\ conf' = ConfSet(proc[p].snap, "token", proc[p].res.access_token)
    /\ Await(p, [proc[p] EXCEPT
          !.pc = "refresh_wait",
          !.inflight = fetchDevicesRequest(p, conf),
          !.log = @ \o FetchLines
                    \o <<"set token", "log: Access token generated and saved!">>])
    /\ UNCHANGED runs

\* Lines 46-48: conf.set writes the copy it read, with the token in it; the
\* success line; the next .then is fetchDevices.
AuthSetToken(p) ==
    /\ proc[p].pc = "set_token"
    /\ conf' = ConfSet(proc[p].snap, "token", proc[p].res.access_token)
    /\ Await(p, [proc[p] EXCEPT
          !.pc = "fetch_devices",
          !.log = @ \o <<"set token", "log: Access token generated and saved!">>])
    /\ UNCHANGED runs

\* Faulty variant of AuthReject: the cached token is dropped on a failure.
AuthRejectDroppingToken(p, r, out) ==
    /\ proc[p].pc = "auth_wait"
    /\ out \in UnhandledOutcomes
    /\ conf' = [k \in DOMAIN conf \ {"token"} |-> conf[k]]
    /\ End(p, proc[p], out, r)
    /\ UNCHANGED runs

\* Lines 50-52: the token request rejects.
AuthReject(p, r, out) ==
    /\ proc[p].pc = "auth_wait"
    /\ CatchMessage(p, r, out)

\* Faulty variant of RunLogout: conf.delete('token'), the device list stays.
RunLogoutTokenOnly(p) ==
    /\ Parsed(p, "logout")
    /\ conf' = [k \in DOMAIN conf \ {"token"} |-> conf[k]]
    /\ End(p, [proc[p] EXCEPT !.log = <<"delete token">>], "done", NoRes)
    /\ UNCHANGED runs

\* `point logout` (136-141): conf.clear() writes the empty store.
RunLogout(p) ==
    /\ Parsed(p, "logout")
    /\ conf' = ConfClear
    /\ End(p, [proc[p] EXCEPT !.log = <<"clear">>], "done", NoRes)
    /\ UNCHANGED runs

\* `point fetch` (148-155): checkAuth() reads the store; fetchDevices() is next.
RunFetch(p) ==
    /\ Parsed(p, "fetch")
    /\ IF checkAuth(conf)
       THEN /\ Await(p, [proc[p] EXCEPT !.pc = "fetch_devices"])
            /\ UNCHANGED <<conf, runs>>
       ELSE ExitUnauthenticated(p)

\* fetchDevices, lines 56-64: the header from conf.get('token'), which reads
\* the store; the Fetching line; the request.
fetchDevices(p) ==
    /\ proc[p].pc = "fetch_devices"
    /\ Await(p, [proc[p] EXCEPT !.pc = "refresh_wait",
                                !.inflight = fetchDevicesRequest(p, conf),
                                !.log = @ \o FetchLines])
    /\ UNCHANGED <<conf, runs>>

\* fetchDevices, lines 65-71, up to the first half of conf.set: the count,
\* one line per device, and conf.set('devices', ..) reads the file.
FetchResolve(p, list) ==
    /\ proc[p].pc = "refresh_wait"
    /\ Await(p, [proc[p] EXCEPT
          !.pc = "set_devices",
          !.res = [kind |-> "devices", devices |-> list],
          !.snap = conf,
          !.shown = [kind |-> "found", count |-> Len(list),
                     names |-> [i \in DOMAIN list |-> list[i].description]],
          !.log = @ \o <<"log: Found">>])
    /\ UNCHANGED <<conf, runs>>

\* Faulty variant of FetchSetDevices: the new records are appended to the
\* cached ones.
FetchSetDevicesMerging(p) ==
    /\ proc[p].pc = "set_devices"
    /\ conf' = ConfSet(proc[p].snap, "devices",
                  (IF "devices" \in DOMAIN proc[p].snap
                   THEN proc[p].snap["devices"] ELSE << >>)
                  \o MapDevices(proc[p].res.devices))
    /\ End(p, [proc[p] EXCEPT !.log = @ \o <<"set devices">>], "done", proc[p].res)
    /\ UNCHANGED runs

\* Line 71, second half: conf.set writes the copy it read, with the mapped
\* list as its 'devices'; the chain is over.
FetchSetDevices(p) ==
    /\ proc[p].pc = "set_devices"
    /\ conf' = ConfSet(proc[p].snap, "devices", MapDevices(proc[p].res.devices))
    /\ End(p, [proc[p] EXCEPT !.log = @ \o <<"set devices">>], "done", proc[p].res)
    /\ UNCHANGED runs

\* fetchDevices, lines 73-75: the device request rejects.
FetchReject(p, r, out) ==
    /\ proc[p].pc = "refresh_wait"
    /\ CatchMessage(p, r, out)

\* `point devices` (165-173): checkAuth() reads the store, then req.get('/devices').
RunDevices(p) ==
    /\ Parsed(p, "devices")
    /\ IF checkAuth(conf)
       THEN /\ Await(p, [proc[p] EXCEPT
                  !.pc = "req_wait",
                  !.inflight = Request("/devices", NoId, proc[p].reqToken, 0),
                  !.log = <<"GET /devices">>])
            /\ UNCHANGED <<conf, runs>>
       ELSE ExitUnauthenticated(p)

\* Lines 174-187: name and id of every device of the answer, with the
\* online/active/last-seen lines under --verbose.  (`res.data.devices > 1`
\* compares an array with a number and is never true.)
DevicesResolve(p, list, verbose, debug) ==
    /\ proc[p].pc = "req_wait" /\ proc[p].cmd = "devices"
    /\ End(p, [proc[p] EXCEPT
             !.shown = [kind |-> "devices",
                rows |-> [i \in DOMAIN list |->
                   IF verbose
                   THEN [name |-> list[i].description, id |-> list[i].device_id,
                         online |-> ~list[i].offline, active |-> list[i].active,
                         seen |-> formatDate(list[i].last_heard_from_at)]
                   ELSE [name |-> list[i].description, id |-> list[i].device_id]]],
             !.log = @ \o DebugLines(debug) \o <<"log: devices">>],
           "done", [kind |-> "devices", devices |-> list])
    /\ UNCHANGED <<conf, runs>>

\* The chain of `devices` has no .catch.
DevicesReject(p, r, out) ==
    /\ proc[p].pc = "req_wait" /\ proc[p].cmd = "devices"
    /\ Unhandled(p, << >>, r, out)

\* The six sensor commands (196-347): checkAuth() reads the store;
\* getDevice(device) is next.
RunSensor(p) ==
    /\ proc[p].pc = "parse" /\ proc[p].cmd \in SensorCmds
    /\ IF checkAuth(conf)
       THEN /\ Await(p, [proc[p] EXCEPT !.pc = "get_device"])
            /\ UNCHANGED <<conf, runs>>
       ELSE ExitUnauthenticated(p)

\* getDevice(device) reads the store; the Point line (point.name throws when
\* getDevice returned undefined: an exception of the handler, which ends the
\* process); then req.get(`/devices/${point.id}/<path>`).
SensorRequest(p) ==
    /\ proc[p].pc = "get_device"
    /\ LET found == getDevice(conf, proc[p].arg)
       IN  IF found = << >>
           THEN End(p, [proc[p] EXCEPT !.log = <<"throw TypeError: point is undefined">>],
                    "crashed", NoRes)
           ELSE Await(p, [proc[p] EXCEPT
                  !.pc = "req_wait",
                  !.point = found,
                  !.shown = [kind |-> "point", name |-> found[1].name],
                  !.inflight = Request(SensorPath[proc[p].cmd], found[1].id,
                                       proc[p].reqToken, 0),
                  !.log = <<"log: Point", "GET /devices/id/sensor">>])
    /\ UNCHANGED <<conf, runs>>

\* The .then of a sensor command: the --debug dump; newest =
\* _.last(res.data.values); value and time lines from newest.  With no sample
\* newest is undefined and newest.value throws inside the callback, which
\* nothing catches.
SensorResolve(p, values, debug, out) ==
    /\ proc[p].pc = "req_wait" /\ proc[p].cmd \in SensorCmds
    /\ LET newest == LodashLast(values)
           r == [kind |-> "values", values |-> values]
       IN  IF newest = << >>
           THEN Unhandled(p, DebugLines(debug)
                             \o <<"throw TypeError: newest is undefined">>, r, out)
           ELSE /\ out = "done"
                /\ End(p, [proc[p] EXCEPT
                        !.shown = [kind |-> "sample", name |-> proc[p].shown.name,
                                   label |-> SensorLabel[proc[p].cmd],
                                   value |-> RenderValue(proc[p].cmd, newest[1].value),
                                   time |-> formatDate(newest[1].datetime)],
                        !.log = @ \o DebugLines(debug) \o <<"log: value", "log: Time">>],
                      "done", r)
                /\ UNCHANGED <<conf, runs>>

\* The chains of the sensor commands have no .catch.
SensorReject(p, r, out) ==
    /\ proc[p].pc = "req_wait" /\ proc[p].cmd \in SensorCmds
    /\ Unhandled(p, << >>, r, out)

\* `point timeline` (355-372): checkAuth() reads the store, then
\* req.get('/events', config) with limit = opts.limit when given, 10 otherwise.
RunTimeline(p, limit) ==
    /\ Parsed(p, "timeline")
    /\ IF checkAuth(conf)
       THEN /\ Await(p, [proc[p] EXCEPT
                  !.pc = "req_wait",
                  !.inflight = Request("/events", NoId, proc[p].reqToken,
                                  IF limit = << >> THEN DefaultLimit ELSE limit[1]),
                  !.log = <<"GET /events">>])
            /\ UNCHANGED <<conf, runs>>
       ELSE ExitUnauthenticated(p)

\* Lines 373-389: per event its date, the first text_params entry (if any)
\* and the prettified type, between the Present and Past markers.
TimelineResolve(p, events, debug) ==
    /\ proc[p].pc = "req_wait" /\ proc[p].cmd = "timeline"
    /\ End(p, [proc[p] EXCEPT
             !.shown = [kind |-> "timeline",
                rows |-> [i \in DOMAIN events |->
                   [date |-> formatDate(events[i].created_at),
                    device |-> SliceFirst(events[i].text_params),
                    event |-> timelinePrettier(events[i].type)]]],
             !.log = @ \o DebugLines(debug) \o <<"log: Present", "log: Past">>],
           "done", [kind |-> "events", events |-> events])
    /\ UNCHANGED <<conf, runs>>

\* The chain of `timeline` has no .catch.
TimelineReject(p, r, out) ==
    /\ proc[p].pc = "req_wait" /\ proc[p].cmd = "timeline"
    /\ Unhandled(p, << >>, r, out)

(* --------------------------- specifications --------------------------- *)
\* Invocations that overlap on one Config Store.
Next ==
    \E p \in Procs :
        \/ \E inv \in MainInvocations : Load(p, inv, MaxStarts)
        \/ Open(p)
        \/ CreateReq(p)
        \/ RunAuth(p)
        \/ AuthCall(p)
        \/ \E tok \in MainTokens : AuthResolve(p, tok)
        \/ AuthSetToken(p)
        \/ \E r \in MainRejections, out \in UnhandledOutcomes : AuthReject(p, r, out)
        \/ RunLogout(p)
        \/ RunFetch(p)
        \/ fetchDevices(p)
        \/ \E list \in MainLists : FetchResolve(p, list)
        \/ FetchSetDevices(p)
        \/ \E r \in MainRejections, out \in UnhandledOutcomes : FetchReject(p, r, out)
        \/ RunDevices(p)
        \/ \E list \in MainLists : DevicesResolve(p, list, FALSE, FALSE)
        \/ \E r \in MainRejections, out \in UnhandledOutcomes : DevicesReject(p, r, out)
        \/ RunSensor(p)
        \/ SensorRequest(p)
        \/ \E values \in MainSampleLists : SensorResolve(p, values, FALSE, "done")
        \/ \E r \in MainRejections, out \in UnhandledOutcomes : SensorReject(p, r, out)
        \/ RunTimeline(p, << >>)
        \/ \E events \in MainEventLists : TimelineResolve(p, events, FALSE)
        \/ \E r \in MainRejections, out \in UnhandledOutcomes : TimelineReject(p, r, out)

Spec == Init /\ [][Next]_vars

\* The invocations run one after the other (no two overlap), from every
\* Config Store with a cached device list up to MaxDevices, with every
\* command line and every answer up to MaxSamples.
CachedLists == {MapDevices(l) : l \in SeqsUpTo(RemoteDevices, MaxDevices)}
Stores ==
    LET withDevices(cf) == {cf} \cup {ConfSet(cf, "devices", l) : l \in CachedLists}
    IN  withDevices(ConfClear) \cup withDevices(ConfSet(ConfClear, "token", "t1"))
InitOne ==
    /\ conf \in Stores
    /\ runs = 0
    /\ proc = [p \in Procs |-> IdleProc]
    /\ ended = NoEnded
    /\ refreshes = NoRefreshes

NextOne ==
    \E p \in {1} :
        \/ \E inv \in Invocations : Load(p, inv, MaxRuns)
        \/ Open(p)
        \/ CreateReq(p)
        \/ RunAuth(p)
        \/ AuthCall(p)
        \/ \E tok \in Tokens : AuthResolve(p, tok)
        \/ AuthSetToken(p)
        \/ \E r \in Rejections, out \in UnhandledOutcomes : AuthReject(p, r, out)
        \/ RunLogout(p)
        \/ RunFetch(p)
        \/ fetchDevices(p)
        \/ \E list \in UpstreamLists : FetchResolve(p, list)
        \/ FetchSetDevices(p)
        \/ \E r \in Rejections, out \in UnhandledOutcomes : FetchReject(p, r, out)
        \/ RunDevices(p)
        \/ \E list \in UpstreamLists, v, d \in BOOLEAN : DevicesResolve(p, list, v, d)
        \/ \E r \in Rejections, out \in UnhandledOutcomes : DevicesReject(p, r, out)
        \/ RunSensor(p)
        \/ SensorRequest(p)
        \/ \E values \in SampleLists, d \in BOOLEAN, out \in UnhandledOutcomes :
              SensorResolve(p, values, d, out)
        \/ \E r \in Rejections, out \in UnhandledOutcomes : SensorReject(p, r, out)
        \/ \E limit \in {<< >>, <<5>>} : RunTimeline(p, limit)
        \/ \E events \in EventLists, d \in BOOLEAN : TimelineResolve(p, events, d)
        \/ \E r \in Rejections, out \in UnhandledOutcomes : TimelineReject(p, r, out)

SpecOne == InitOne /\ [][NextOne]_vars

(* ------------------------------- claims ------------------------------- *)
HasToken(cf) == "token" \in DOMAIN cf
\* Invocation p takes the step it waited for at w.
Step(p, w) == proc[p].pc = w /\ proc'[p] # proc[p]
\* The step ends the invocation p that waited at w; ended' is its outcome.
Ends(p, w) == proc[p].pc = w /\ proc'[p].pc = "idle"
\* Every b of the log has an a before it.
Precedes(lg, a, b) ==
    \A j \in DOMAIN lg : lg[j] = b => \E i \in 1..(j - 1) : lg[i] = a
Min(S) == CHOOSE m \in S : \A x \in S : m <= x

\* C1: when the token request of authenticate is rejected, the step that
\* handles the rejection leaves the Config Store as it was, no Device Refresh
\* request is issued and the program does not exit the process
\* (process.exit); when the rejection value is the server's response, its
\* message is printed and the process ends with status 0.
C1_AuthFailureLeavesStore ==
    [][\A p \in Procs :
         (Ends(p, "auth_wait") /\ ended'.res.kind = "rejected")
         => /\ conf' = conf
            /\ proc'[p] = IdleProc
            /\ "GET /devices" \notin Range(ended'.log)
            /\ ended'.status # "exit1" /\ "exit 1" \notin Range(ended'.log)
            /\ ended'.res.shape = "response"
               => /\ ended'.shown = [kind |-> "message", text |-> ended'.res.message]
                  /\ ended'.status = "done" /\ ExitStatus(ended') = 0]_vars
\* An auth was rejected while a token and a device list were cached.
C1_Witness ==
    /\ ended.cmd = "auth" /\ ended.res.kind = "rejected"
    /\ "GET /devices" \notin Range(ended.log)
    /\ HasToken(conf) /\ "devices" \in DOMAIN conf

\* C2: on a successful token response the token is written to the Config
\* Store before the Device Refresh request is issued, the refresh is always
\* issued after the write, and a refresh of an auth that then fails leaves
\* the Config Store alone.
C2_AuthStoresThenRefreshes ==
    [][\A p \in Procs :
         /\ Step(p, "set_token")
            => /\ HasToken(conf') /\ conf'["token"] = proc[p].res.access_token
               /\ proc'[p].pc = "fetch_devices"
               /\ "GET /devices" \notin Range(proc'[p].log)
         /\ (Step(p, "fetch_devices") /\ proc[p].cmd = "auth")
            => /\ proc'[p].pc = "refresh_wait"
               /\ proc'[p].inflight.ep = "/devices"
               /\ "GET /devices" \in Range(proc'[p].log)
               /\ Precedes(proc'[p].log, "set token", "GET /devices")
         /\ (Ends(p, "refresh_wait") /\ proc[p].cmd = "auth")
            => /\ ended'.res.kind = "rejected"
               /\ conf' = conf]_vars
\* The refresh of an auth failed: its token is cached, no device list is.
C2_Witness ==
    /\ ended.cmd = "auth" /\ ended.res.kind = "rejected"
    /\ "GET /devices" \in Range(ended.log)
    /\ HasToken(conf) /\ "devices" \notin DOMAIN conf
    /\ \A p \in Procs : proc[p].pc = "idle"

\* C3: an authenticated command run while no token is cached prints the
\* guidance and exits with status 1, having resolved no device and issued no
\* request; from its start to its exit the Config Store stays as it was.
C3_UnauthenticatedExits ==
    [][\A p \in Procs :
         (proc[p].cmd \in AuthedCmds /\ ~HasToken(conf) /\ proc'[p] # proc[p])
         => /\ proc[p].pc \in {"open", "create", "parse"}
            /\ conf' = conf
            /\ proc[p].inflight = NoReq /\ proc'[p].inflight = NoReq
            /\ proc[p].pc = "parse"
               => /\ proc'[p] = IdleProc
                  /\ ended'.status = "exit1" /\ ExitStatus(ended') # 0
                  /\ ended'.log = <<Guidance, "exit 1">>
                  /\ ended'.point = << >>]_vars
\* A sensor command with a device name exited unauthenticated although a
\* device list is cached.
C3_Witness ==
    /\ ended.cmd \in SensorCmds /\ ended.arg # NoArg /\ ended.status = "exit1"
    /\ ~HasToken(conf)
    /\ "devices" \in DOMAIN conf /\ conf["devices"] # << >>

\* C4: logout leaves neither token nor device list in the Config Store; from
\* then on a token appears only by the token write of an authenticate that
\* succeeded, and until then every authenticated command that is run reports
\* Unauthenticated (invocations run one after the other).
C4_LogoutForgets ==
    [][\A p \in Procs :
         /\ (Step(p, "parse") /\ proc[p].cmd = "logout") => DOMAIN conf' = {}
         /\ (proc'[p] # proc[p] /\ ~HasToken(conf) /\ HasToken(conf'))
            => proc[p].cmd = "auth" /\ proc[p].pc = "set_token"
         /\ (Step(p, "parse") /\ proc[p].cmd \in AuthedCmds /\ ~HasToken(conf))
            => /\ ended'.status = "exit1"
               /\ ended'.log = <<Guidance, "exit 1">>]_vars
\* A logout that was not the first invocation emptied a store that held a
\* token and a device list.
C4_Witness ==
    /\ ended.cmd = "logout" /\ runs >= 2
    /\ HasToken(ended.snap) /\ "devices" \in DOMAIN ended.snap
    /\ DOMAIN conf = {}

\* C5: with a non-empty cached list, getDevice returns the first record in
\* list order whose name equals the given name exactly, and the first record
\* of the list when no name is given or none matches; the record is a member
\* of the cached list, which is left alone.
C5_ResolveFirstMatchElseFirst ==
    [][\A p \in Procs :
         (/\ Step(p, "get_device")
          /\ "devices" \in DOMAIN conf /\ conf["devices"] # << >>)
         => LET devs == conf["devices"]
                a == proc[p].arg
                hits == {i \in DOMAIN devs : a # NoArg /\ devs[i].name = a[1]}
                want == IF hits # {} THEN devs[Min(hits)] ELSE devs[1]
            IN  /\ proc'[p].point = <<want>>
                /\ want \in Range(devs)
                /\ conf' = conf]_vars
\* "Kitchen" was asked for and found behind a record named "kitchen".
C5_Witness ==
    \E p \in Procs :
        /\ proc[p].pc = "req_wait" /\ proc[p].arg = <<"Kitchen">>
        /\ "devices" \in DOMAIN conf /\ Len(conf["devices"]) = 2
        /\ conf["devices"][1].name = "kitchen"
        /\ proc[p].point = <<conf["devices"][2]>>

\* C6: a sensor command run with a token but with no cached device reports an
\* explicit error; it never dies of the exception raised by reading a field
\* of the absent record.
C6_EmptyCacheFailsExplicitly ==
    (ended.cmd \in SensorCmds /\ ended.res.kind = "none") => ended.status # "crashed"

\* C7 as claimed: after any interleaving of Device Refresh calls (every
\* invocation started is `point fetch`, none is still running, and the
\* response of at least one was successful and has been processed), the
\* cached device list is exactly the list {id: device_id, name:
\* description} of the successful response that was processed last.
C7_LastWriteWins ==
    (/\ refreshes.only /\ refreshes.last # << >>
     /\ \A p \in Procs : proc[p].pc = "idle")
    => ConfDevices(conf) = <<MapDevices(refreshes.last[1])>>

\* C7, amended: the write of a successful Device Refresh makes the cached
\* device list exactly the list {id: device_id, name: description} of its
\* response, in its order (full overwrite, nothing merged); the cached list
\* changes only by such a write, by a logout, or by the write of an
\* overlapping invocation (opening the store, storing a token), which puts
\* back the list that invocation had read before.
C7_RefreshOverwrites ==
    [][/\ \A p \in Procs :
            Step(p, "set_devices")
            => LET l == proc[p].res.devices
               IN  /\ "devices" \in DOMAIN conf'
                   /\ Len(conf'["devices"]) = Len(l)
                   /\ \A i \in DOMAIN l :
                        conf'["devices"][i] = [id |-> l[i].device_id,
                                               name |-> l[i].description]
       /\ ConfDevices(conf') # ConfDevices(conf)
          => \E p \in Procs :
                \/ Step(p, "set_devices")
                \/ Step(p, "parse") /\ proc[p].cmd = "logout"
                \/ /\ Step(p, "open") \/ Step(p, "set_token")
                   /\ ConfDevices(conf') = ConfDevices(proc[p].snap)]_vars
\* Two overlapping Device Refresh calls have received different upstream
\* lists: the first has overwritten another non-empty list with exactly its
\* own, the second has its answer and has not written yet.
C7_Witness ==
    /\ ended.cmd \in {"fetch", "auth"} /\ ended.res.kind = "devices"
    /\ "devices" \in DOMAIN conf
    /\ conf["devices"] = MapDevices(ended.res.devices)
    /\ "devices" \in DOMAIN ended.snap /\ ended.snap["devices"] # << >>
    /\ ended.snap["devices"] # conf["devices"]
    /\ \E p \in Procs :
          /\ proc[p].pc = "set_devices"
          /\ proc[p].res.devices # ended.res.devices
          /\ Range(proc[p].res.devices) \cap Range(ended.res.devices) # {}

\* C8: a command (fetch, devices, a sensor command, timeline) whose request
\* the remote API rejects prints the server's message and ends normally.
C8_RejectionRecovered ==
    (ended.cmd \in AuthedCmds /\ ended.res.kind = "rejected")
    => /\ ended.shown = [kind |-> "message", text |-> ended.res.message]
       /\ ended.status = "done"

\* C9: a sensor command that receives a non-empty sample sequence renders the
\* value and the time of its last sample (the value rounded to the nearest
\* hundredth for temp, as it is for the others), and leaves the Config Store
\* alone.
C9_LatestSampleRendered ==
    [][\A p \in Procs :
         (/\ Ends(p, "req_wait") /\ proc[p].cmd \in SensorCmds
          /\ ended'.res.kind = "values" /\ ended'.res.values # << >>)
         => LET vs == ended'.res.values
                newest == vs[Len(vs)]
                v == ended'.shown.value
            IN  /\ ended'.shown.kind = "sample"
                /\ IF proc[p].cmd = "temp"
                   THEN /\ v % 10 = 0
                        /\ 2 * (v - newest.value) <= 10
                        /\ 2 * (newest.value - v) < 10
                   ELSE v = newest.value
                /\ ended'.shown.time.HH = newest.datetime.h
                /\ ended'.shown.time.MM = newest.datetime.mi
                /\ ended'.shown.time.dd = newest.datetime.d
                /\ ended'.shown.time.mm = newest.datetime.mo
                /\ ended'.shown.time.yyyy = newest.datetime.y
                /\ ended'.status = "done"
                /\ conf' = conf]_vars
\* temp rendered the last of two samples, which is the older one and whose
\* value rounding changes.
C9_Witness ==
    /\ ended.cmd = "temp" /\ ended.res.kind = "values"
    /\ ended.res.values = << Sample(19805, T3), Sample(19234, T1) >>
    /\ ended.shown.kind = "sample"
    /\ ended.shown.value = 19230
    /\ ended.shown.time.MM = 15

\* C10: the request of every Device Refresh carries the token that is in the
\* Config Store when fetchDevices builds its header; the refresh that
\* follows a successful authenticate carries the token just stored
\* (invocations run one after the other).
C10_RefreshCarriesStoredToken ==
    [][\A p \in Procs :
         Step(p, "fetch_devices")
         => /\ proc'[p].pc = "refresh_wait"
            /\ HasToken(conf)
            /\ proc'[p].inflight.bearer = conf["token"]
            /\ proc[p].cmd = "auth"
               => proc'[p].inflight.bearer = proc[p].res.access_token]_vars
\* The refresh of an auth is in flight with a token other than the one the
\* process started with.
C10_Witness ==
    \E p \in Procs :
        /\ proc[p].cmd = "auth" /\ proc[p].pc = "refresh_wait"
        /\ proc[p].reqToken \in Tokens
        /\ proc[p].inflight.bearer \in Tokens \ {proc[p].reqToken}

====
